---- MODULE Spec2Model ----
(***************************************************************************)
(* Model of src/core/figma/componentization/component-extractor.ts:        *)
(* duplicate JSX subtree detection (findComponentCandidates) and           *)
(* extraction (extractComponents); of the file output of the convert       *)
(* command (src/cli/utils/file-writer.ts); and of the AI framework mapper  *)
(* (mapToFrameworkWithAI).                                                 *)
(*                                                                         *)
(* The AST is a heap of JSXElement nodes addressed by identity (their      *)
(* index in `heap`); the program body is a sequence of top-level           *)
(* statements, each holding at most one JSX tree.  Source text is a value  *)
(* without identities plus a layout mark: parse drops the layout and       *)
(* allocates nodes, generate always emits the generator's own layout.      *)
(***************************************************************************)
EXTENDS Integers, Sequences, FiniteSets, TLC

\* extractComponents: the call, its locals and its result; `previous` is an
\* earlier call with what it returned.
VARIABLES input, options, pc, heap, body, candidates, idx,
          extractedComponents, result, previous

\* convertCommand and saveConversionResults: the command's options, the
\* arguments of the save, the files on disk, the confirmations asked so far.
VARIABLES cliOptions, saveCall, disk, prompted, savedFiles, savePc, assetIdx

\* mapToFrameworkWithAI: the call, its local `result` and the stages run.
VARIABLES mapCall, mapPc, mapResult, stages

writerVars == <<cliOptions, saveCall, disk, prompted, savedFiles, savePc, assetIdx>>

mapperVars == <<mapCall, mapPc, mapResult, stages>>

vars == <<input, options, pc, heap, body, candidates, idx,
          extractedComponents, result, previous, writerVars, mapperVars>>

(***************************************************************************)
(* Bounds of the explored inputs.                                          *)
(***************************************************************************)
MaxNodes == 4

(***************************************************************************)
(* Names.  A tag name is a base string with an optional numeric suffix     *)
(* (num = 0: no suffix); `${componentNameBase}${n}` is [base, num |-> n].  *)
(***************************************************************************)
Tag(base) == [base |-> base, num |-> 0]

DEFAULT_minRepeats == 2

DEFAULT_componentNameBase == "Extracted"

DEFAULT_skipTags ==
    {"svg", "clippath", "defs", "ellipse", "g", "lineargradient", "mask",
     "path", "pattern", "polygon", "polyline", "radialgradient", "rect", "stop",
     "circle", "image", "line", "text", "tspan", "use", "foreignobject"}

\* Base strings whose first character is an upper-case letter: /^[A-Z]/.
UpperInitial == {"Card", "Extracted"}

\* String.prototype.toLowerCase on the base strings of the model.
toLowerCase(s) ==
    CASE s = "Card" -> "card"
      [] s = "Extracted" -> "extracted"
      [] OTHER -> s

\* Options the caller passes: minRepeats is either absent or a number.
OptionChoices ==
    {[supplied |-> FALSE, minRepeats |-> 0]}
        \cup {[supplied |-> TRUE, minRepeats |-> m] : m \in {1, 3}}

\* { ...DEFAULT_OPTIONS, ...options }
mergeOptions(o) ==
    [minRepeats |-> IF o.supplied THEN o.minRepeats ELSE DEFAULT_minRepeats,
     componentNameBase |-> DEFAULT_componentNameBase,
     skipTags |-> DEFAULT_skipTags]

(***************************************************************************)
(* Input texts: every ordered tree of 1..MaxNodes elements over Heads,     *)
(* as the JSX returned by the one component of the module, after an        *)
(* import statement.                                                       *)
(***************************************************************************)
\* A JSXElement with its tag and its attributes, before its children.
Element(base, attributes) ==
    [type |-> "JSXElement", tag |-> Tag(base), attributes |-> attributes, value |-> ""]

Heads == {Element(base, <<>>) : base \in {"div", "p", "Card", "path"}}

\* A JSX tree is written as its elements in pre-order, each with its nesting
\* depth: the first line is the root, a line nests at most one level deeper
\* than the line before it.
WellNested(n, depth) ==
    /\ depth[1] = 0
    /\ \A i \in 2..n : depth[i] >= 1 /\ depth[i] <= depth[i - 1] + 1

\* A line is an element, a JSXText or a JSXExpressionContainer child; the
\* latter two carry their content in `value`.
Line(depth, head) ==
    [depth |-> depth, type |-> head.type, tag |-> head.tag,
     attributes |-> head.attributes, value |-> head.value]

LinesOf(n, depth, heads) == [i \in 1..n |-> Line(depth[i], heads[i])]

SourceText(lines) ==
    [layout |-> "source",
     program |-> <<[type |-> "ImportDeclaration", name |-> Tag("react"), jsx |-> <<>>],
                   [type |-> "ExportDefaultDeclaration", name |-> Tag("App"), jsx |-> lines]>>]

(***************************************************************************)
(* parse and generate.                                                     *)
(***************************************************************************)
\* The element written at lines[i]: its children are the following lines one
\* level deeper, up to the first line that is not deeper than lines[i].
RECURSIVE parseElement(_, _, _), parseChildren(_, _, _, _, _)
parseElement(h, lines, i) ==
    LET r == parseChildren(h, lines, i + 1, lines[i].depth, <<>>)
    IN [heap |-> Append(r.heap, [type |-> lines[i].type, tag |-> lines[i].tag,
                                 attributes |-> lines[i].attributes,
                                 value |-> lines[i].value,
                                 children |-> r.ids]),
        id |-> Len(r.heap) + 1,
        next |-> r.next]

parseChildren(h, lines, i, depth, acc) ==
    IF i > Len(lines) \/ lines[i].depth <= depth
    THEN [heap |-> h, ids |-> acc, next |-> i]
    ELSE LET c == parseElement(h, lines, i)
         IN parseChildren(c.heap, lines, c.next, depth, Append(acc, c.id))

RECURSIVE parseStatements(_, _, _, _)
parseStatements(h, stmts, i, acc) ==
    IF i > Len(stmts) THEN [heap |-> h, body |-> acc]
    ELSE IF stmts[i].jsx = <<>>
         THEN parseStatements(h, stmts, i + 1,
                 Append(acc, [type |-> stmts[i].type, name |-> stmts[i].name, root |-> 0]))
         ELSE LET e == parseElement(h, stmts[i].jsx, 1)
              IN parseStatements(e.heap, stmts, i + 1,
                     Append(acc, [type |-> stmts[i].type, name |-> stmts[i].name,
                                  root |-> e.id]))

\* The texts @babel/parser rejects with a SyntaxError: JSX whose tags do not
\* nest, or whose text or expression child holds children.
isSyntaxError(code) ==
    \E s \in DOMAIN code.program :
       LET lines == code.program[s].jsx
       IN /\ lines # <<>>
          /\ \/ ~WellNested(Len(lines), [i \in DOMAIN lines |-> lines[i].depth])
             \/ lines[1].type # "JSXElement"
             \/ \E i \in 2..Len(lines) :
                   /\ lines[i].depth > lines[i - 1].depth
                   /\ lines[i - 1].type # "JSXElement"

parse(code) == parseStatements(<<>>, code.program, 1, <<>>)

RECURSIVE generateElement(_, _, _), generateChildren(_, _, _)
generateElement(h, id, depth) ==
    <<Line(depth, h[id])>>
        \o generateChildren(h, h[id].children, depth + 1)

generateChildren(h, ids, depth) ==
    IF ids = <<>> THEN <<>>
    ELSE generateElement(h, Head(ids), depth) \o generateChildren(h, Tail(ids), depth)

RECURSIVE generateStatements(_, _)
generateStatements(h, b) ==
    IF b = <<>> THEN <<>>
    ELSE <<[type |-> Head(b).type, name |-> Head(b).name,
            jsx |-> IF Head(b).root = 0 THEN <<>>
                    ELSE generateElement(h, Head(b).root, 0)]>>
         \o generateStatements(h, Tail(b))

generate(h, b) == [layout |-> "generated", program |-> generateStatements(h, b)]

(***************************************************************************)
(* @babel/traverse over the JSXElement nodes of the program, in pre-order. *)
(* A path records the node, its JSXElement parent (0: none) and where the  *)
(* node hangs: the statement, and its slot in the parent's children.       *)
(***************************************************************************)
RECURSIVE pathsFrom(_, _, _, _, _), pathsOfChildren(_, _, _, _)
pathsFrom(h, id, parent, stmt, slot) ==
    <<[node |-> id, parent |-> parent, stmt |-> stmt, slot |-> slot]>>
        \o pathsOfChildren(h, id, stmt, 1)

pathsOfChildren(h, id, stmt, i) ==
    IF i > Len(h[id].children) THEN <<>>
    ELSE (IF h[h[id].children[i]].type = "JSXElement"
          THEN pathsFrom(h, h[id].children[i], id, stmt, i)
          ELSE <<>>)
            \o pathsOfChildren(h, id, stmt, i + 1)

RECURSIVE pathsOfStatements(_, _, _)
pathsOfStatements(h, b, i) ==
    IF i > Len(b) THEN <<>>
    ELSE (IF b[i].root = 0 THEN <<>> ELSE pathsFrom(h, b[i].root, 0, i, 0))
            \o pathsOfStatements(h, b, i + 1)

traverse(h, b) == pathsOfStatements(h, b, 1)

(***************************************************************************)
(* Fingerprint and the tag predicates.                                     *)
(***************************************************************************)
\* generate(attr.value).code of a JSXExpressionContainer holding expression e.
generateContainer(e) ==
    CASE e = "cls" -> "{cls}"
      [] e = "row" -> "{row}"
      [] OTHER -> "{}"

RECURSIVE classNamesOf(_, _, _)
classNamesOf(attributes, i, classNames) ==
    IF i > Len(attributes) THEN classNames
    ELSE LET attr == attributes[i]
         IN classNamesOf(attributes, i + 1,
              IF attr.type = "JSXAttribute" /\ attr.name = "className"
              THEN IF attr.valueType = "StringLiteral" THEN attr.value
                   ELSE IF attr.valueType = "JSXExpressionContainer"
                        THEN generateContainer(attr.value)
                        ELSE classNames
              ELSE classNames)

computeTreeFingerprintOfContent(h, id) ==
    <<h[id].tag, h[id].attributes, Len(h[id].children),
      classNamesOf(h[id].attributes, 1, "")>>

\* `${tagName}:${propsCount}:${childrenCount}:${classNames}`; the first three
\* parts hold no colon, so the string determines the four parts.
computeTreeFingerprint(h, id) ==
    <<h[id].tag, Len(h[id].attributes), Len(h[id].children),
      classNamesOf(h[id].attributes, 1, "")>>

getTagName(h, id) == h[id].tag

shouldSkipTagAlwaysFalse(h, id, skipTags) == FALSE

shouldSkipTag(h, id, skipTags) ==
    LET tagName == getTagName(h, id)
    IN tagName.num = 0 /\ toLowerCase(tagName.base) \in skipTags

isCustomComponent(h, id) == getTagName(h, id).base \in UpperInitial

(***************************************************************************)
(* findComponentCandidates.                                                *)
(***************************************************************************)
\* candidates.get(fingerprint).push(node), creating the entry when missing;
\* the Map keeps its entries in insertion order.
mapPush(map, fingerprint, node) ==
    IF \E k \in DOMAIN map : map[k].fingerprint = fingerprint
    THEN [k \in DOMAIN map |->
            IF map[k].fingerprint = fingerprint
            THEN [map[k] EXCEPT !.occurrences = Append(@, node)]
            ELSE map[k]]
    ELSE Append(map, [fingerprint |-> fingerprint, occurrences |-> <<node>>])

\* The JSXElement visitor of the collecting traversal.
visitElement(h, path, opts, map) ==
    IF shouldSkipTag(h, path.node, opts.skipTags) THEN map
    ELSE IF path.parent # 0 /\ shouldSkipTag(h, path.parent, opts.skipTags) THEN map
    ELSE IF isCustomComponent(h, path.node) THEN map
    ELSE IF path.parent = 0 THEN map
    ELSE mapPush(map, computeTreeFingerprint(h, path.node), path.node)

RECURSIVE collect(_, _, _, _, _)
collect(h, paths, i, opts, map) ==
    IF i > Len(paths) THEN map
    ELSE collect(h, paths, i + 1, opts, visitElement(h, paths[i], opts, map))

\* Index of the first path that reaches `node` (0: not reached).
firstPathTo(paths, node) ==
    IF \E k \in DOMAIN paths : paths[k].node = node
    THEN CHOOSE k \in DOMAIN paths :
            /\ paths[k].node = node
            /\ \A j \in DOMAIN paths : paths[j].node = node => k <= j
    ELSE 0

\* The JSXElement parent of the node, 0 when it has none or is not reached.
findParentPath(h, b, node) ==
    LET paths == traverse(h, b)
        k == firstPathTo(paths, node)
    IN IF k = 0 THEN 0 ELSE paths[k].parent

belowMinRepeatsOffByOne(length, minRepeats) == length <= minRepeats

belowMinRepeats(length, minRepeats) == length < minRepeats

wrappedInCustomComponentNever(h, b, occurrences) == FALSE

\* The shouldSkip loop: some occurrence's parent is a custom component.
wrappedInCustomComponent(h, b, occurrences) ==
    \E k \in DOMAIN occurrences :
        LET parent == findParentPath(h, b, occurrences[k])
        IN parent # 0 /\ isCustomComponent(h, parent)

suggestedNameOfBeforeIncrement(opts, componentCounter) ==
    [base |-> opts.componentNameBase, num |-> componentCounter - 1]

\* `${opts.componentNameBase}${++componentCounter}`, given the incremented counter.
suggestedNameOf(opts, componentCounter) ==
    [base |-> opts.componentNameBase, num |-> componentCounter]

RECURSIVE filterCandidates(_, _, _, _, _, _, _)
filterCandidates(h, b, map, i, opts, componentCounter, results) ==
    IF i > Len(map) THEN results
    ELSE IF belowMinRepeats(Len(map[i].occurrences), opts.minRepeats)
         THEN filterCandidates(h, b, map, i + 1, opts, componentCounter, results)
    ELSE IF wrappedInCustomComponent(h, b, map[i].occurrences)
         THEN filterCandidates(h, b, map, i + 1, opts, componentCounter, results)
    ELSE filterCandidates(h, b, map, i + 1, opts, componentCounter + 1,
            Append(results,
                   [fingerprint |-> map[i].fingerprint,
                    occurrences |-> map[i].occurrences,
                    example |-> map[i].occurrences[1],
                    count |-> Len(map[i].occurrences),
                    suggestedName |-> suggestedNameOf(opts, componentCounter + 1)]))

sortInsertBeforeTies(sorted, c) ==
    LET k == Cardinality({j \in DOMAIN sorted : sorted[j].count > c.count})
    IN SubSeq(sorted, 1, k) \o <<c>> \o SubSeq(sorted, k + 1, Len(sorted))

\* results.sort((a, b) => b.count - a.count): stable, descending by count.
sortInsert(sorted, c) ==
    LET k == Cardinality({j \in DOMAIN sorted : sorted[j].count >= c.count})
    IN SubSeq(sorted, 1, k) \o <<c>> \o SubSeq(sorted, k + 1, Len(sorted))

RECURSIVE sortByCount(_, _, _)
sortByCount(results, i, sorted) ==
    IF i > Len(results) THEN sorted
    ELSE sortByCount(results, i + 1, sortInsert(sorted, results[i]))

\* A counter that outlives the call: it stands where the previous call left it.
staleComponentCounter == Len(previous.result.components)

\* let componentCounter = 0
initialComponentCounter == 0

findComponentCandidates(h, b, o) ==
    LET opts == mergeOptions(o)
        map == collect(h, traverse(h, b), 1, opts, <<>>)
        results == filterCandidates(h, b, map, 1, opts, initialComponentCounter, <<>>)
    IN sortByCount(results, 1, <<>>)

(***************************************************************************)
(* extractComponentDeclaration and replaceOccurrencesWithComponent.        *)
(***************************************************************************)
cloneNodeAlias(h, id) == [heap |-> h, id |-> id]

cloneNodeShallow(h, id) == [heap |-> Append(h, h[id]), id |-> Len(h) + 1]

\* t.cloneNode(node): deep by default, every copied node is a new object.
RECURSIVE cloneNode(_, _), cloneChildren(_, _, _, _)
cloneNode(h, id) ==
    LET r == cloneChildren(h, h[id].children, 1, <<>>)
    IN [heap |-> Append(r.heap, [h[id] EXCEPT !.children = r.ids]),
        id |-> Len(r.heap) + 1]

cloneChildren(h, kids, i, acc) ==
    IF i > Len(kids) THEN [heap |-> h, ids |-> acc]
    ELSE LET c == cloneNode(h, kids[i])
         IN cloneChildren(c.heap, kids, i + 1, Append(acc, c.id))

\* The new heap and the FunctionDeclaration returning the clone.
extractComponentDeclaration(h, candidate) ==
    LET c == cloneNode(h, candidate.example)
    IN [heap |-> c.heap,
        decl |-> [type |-> "FunctionDeclaration", name |-> candidate.suggestedName,
                  root |-> c.id]]

Range(seq) == {seq[k] : k \in DOMAIN seq}

isOccurrenceByFingerprint(h, node, candidate) ==
    computeTreeFingerprint(h, node) = candidate.fingerprint

\* occurrences.includes(path.node)
isOccurrence(h, node, candidate) == node \in Range(candidate.occurrences)

\* path.replaceWith(replacement): the new node takes the place of the old.
replaceWith(h, b, path, replacement) ==
    IF path.parent = 0
    THEN [heap |-> Append(h, replacement),
          body |-> [b EXCEPT ![path.stmt].root = Len(h) + 1]]
    ELSE [heap |-> Append([h EXCEPT ![path.parent].children[path.slot] = Len(h) + 1],
                          replacement),
          body |-> b]

\* The traversal replaces the first visited occurrence and then path.stop()
\* ends the whole traversal.
replaceOccurrencesWithComponent(h, b, candidate) ==
    LET paths == traverse(h, b)
        hits == {k \in DOMAIN paths : isOccurrence(h, paths[k].node, candidate)}
    IN IF hits = {} THEN [heap |-> h, body |-> b]
       ELSE LET k == CHOOSE x \in hits : \A y \in hits : x <= y
            IN replaceWith(h, b, paths[k],
                  [type |-> "JSXElement", tag |-> candidate.suggestedName,
                   attributes |-> <<>>, value |-> "", children |-> <<>>])

(***************************************************************************)
(* extractComponents.                                                      *)
(***************************************************************************)
NoResult ==
    [code |-> [layout |-> "none", program |-> <<>>], components |-> <<>>, changed |-> FALSE]

noChangeResultReserialized(code, ast) ==
    [code |-> generate(ast.heap, ast.body), components |-> <<>>, changed |-> FALSE]

\* return { code, components: [], changed: false }
noChangeResult(code, ast) == [code |-> code, components |-> <<>>, changed |-> FALSE]

NoText == [layout |-> "none", program |-> <<>>]

NoOptions == [supplied |-> FALSE, minRepeats |-> 0]

NoCall == [input |-> NoText, options |-> NoOptions, result |-> NoResult]

\* No file has been saved.
Paths == {"App.tsx", "App.css", "assets/a.png", "assets/b.png"}

WriterIdle ==
    /\ cliOptions = [force |-> FALSE]
    /\ saveCall = [css |-> "", cssPath |-> "", assets |-> <<>>]
    /\ disk = [p \in Paths |-> "absent"]
    /\ prompted = <<>>
    /\ savedFiles = [component |-> "", css |-> "", assets |-> <<>>]
    /\ savePc = "idle"
    /\ assetIdx = 0

\* No code has been mapped.
MapperIdle ==
    /\ mapCall = [code |-> "", framework |-> "none", tailwindConfigPath |-> "",
                  apiKey |-> FALSE]
    /\ mapPc = "idle"
    /\ mapResult = ""
    /\ stages = <<>>

\* Nothing has been called yet.
Init ==
    /\ previous = NoCall
    /\ WriterIdle
    /\ MapperIdle
    /\ input = NoText
    /\ options = NoOptions
    /\ pc = "idle"
    /\ heap = <<>>
    /\ body = <<>>
    /\ candidates = <<>>
    /\ idx = 0
    /\ extractedComponents = <<>>
    /\ result = NoResult

\* The steps of extractComponents(code, o) before its loop.
startWith(code, o) ==
    LET ast == parse(code)
        found == findComponentCandidates(ast.heap, ast.body, o)
    IN /\ input' = code
       /\ options' = o
       /\ heap' = ast.heap
       /\ body' = ast.body
       /\ candidates' = found
       /\ IF Len(found) = 0
          THEN /\ result' = noChangeResult(code, ast)
               /\ pc' = "done"
               /\ idx' = 0
          ELSE /\ result' = result
               /\ pc' = "loop"
               /\ idx' = 1

Start ==
    /\ pc = "idle"
    /\ \E n \in 1..MaxNodes :
         \E depth \in [1..n -> 0..(n - 1)] :
           /\ WellNested(n, depth)
           /\ \E heads \in [1..n -> Heads], o \in OptionChoices :
                 startWith(SourceText(LinesOf(n, depth, heads)), o)
    /\ UNCHANGED <<extractedComponents, previous, writerVars, mapperVars>>

unshiftAsPush(b, decl) == Append(b, decl)

\* program.body.unshift(decl)
unshift(b, decl) == <<decl>> \o b

\* One iteration of `for (const candidate of candidates)`.
ProcessCandidate ==
    /\ pc = "loop"
    /\ idx <= Len(candidates)
    /\ LET candidate == candidates[idx]
           d == extractComponentDeclaration(heap, candidate)
           r == replaceOccurrencesWithComponent(d.heap, unshift(body, d.decl), candidate)
       IN /\ heap' = r.heap
          /\ body' = r.body
          /\ extractedComponents' =
                Append(extractedComponents,
                       [name |-> candidate.suggestedName, count |-> candidate.count,
                        fingerprint |-> candidate.fingerprint])
    /\ idx' = idx + 1
    /\ UNCHANGED <<input, options, pc, candidates, result, previous, writerVars, mapperVars>>

\* generate(ast) and the final return.
Generate ==
    /\ pc = "loop"
    /\ idx > Len(candidates)
    /\ result' = [code |-> generate(heap, body), components |-> extractedComponents,
                  changed |-> TRUE]
    /\ pc' = "done"
    /\ UNCHANGED <<input, options, heap, body, candidates, idx, extractedComponents>>
    /\ UNCHANGED <<previous, writerVars, mapperVars>>

\* MaxMalformedLines bounds the JSX of the rejected texts.
MaxMalformedLines == 2

\* extractComponents on a text that parse rejects: parse(code, ...) stands
\* outside any try block, the SyntaxError reaches the caller.
ParseThrows ==
    /\ pc = "idle"
    /\ \E n \in 1..MaxMalformedLines :
         \E depth \in [1..n -> 0..n], heads \in [1..n -> Heads], o \in OptionChoices :
            /\ isSyntaxError(SourceText(LinesOf(n, depth, heads)))
            /\ input' = SourceText(LinesOf(n, depth, heads))
            /\ options' = o
    /\ pc' = "threw"
    /\ UNCHANGED <<heap, body, candidates, idx, extractedComponents, result>>
    /\ UNCHANGED <<previous, writerVars, mapperVars>>

\* generate(ast) raising an error: the call stands outside any try block.
GenerateThrows ==
    /\ pc = "loop"
    /\ idx > Len(candidates)
    /\ pc' = "threw"
    /\ UNCHANGED <<input, options, heap, body, candidates, idx, extractedComponents, result>>
    /\ UNCHANGED <<previous, writerVars, mapperVars>>

Next == ParseThrows \/ Start \/ ProcessCandidate \/ Generate \/ GenerateThrows

Spec == Init /\ [][Next]_vars

(***************************************************************************)
(* The fingerprint on elements with attributes, text and expressions: the  *)
(* input is <main>A B</main> for every two elements A, B of Shapes, under  *)
(* the default options.                                                    *)
(***************************************************************************)
Attribute(name, valueType, value) ==
    [type |-> "JSXAttribute", name |-> name, valueType |-> valueType, value |-> value]

\* A JSXText child and a {expression} child.
Text(value) == [type |-> "JSXText", tag |-> Tag(""), attributes |-> <<>>, value |-> value]

Expression(e) ==
    [type |-> "JSXExpressionContainer", tag |-> Tag(""), attributes |-> <<>>, value |-> e]

AttributeLists ==
    {<<>>,
     <<Attribute("className", "StringLiteral", "row")>>,
     <<Attribute("className", "StringLiteral", "col")>>,
     <<Attribute("className", "JSXExpressionContainer", "cls")>>,
     <<Attribute("className", "StringLiteral", "{cls}")>>,
     <<Attribute("id", "StringLiteral", "a")>>,
     <<Attribute("id", "JSXExpressionContainer", "cls")>>,
     <<Attribute("title", "StringLiteral", "a")>>,
     <<Attribute("className", "StringLiteral", "row"), Attribute("id", "StringLiteral", "a")>>,
     <<Attribute("id", "StringLiteral", "b"), Attribute("className", "StringLiteral", "row")>>,
     <<Attribute("className", "StringLiteral", "row"),
       Attribute("className", "StringLiteral", "col")>>}

\* The children of a shape, as lines below it.
ChildLists ==
    {<<>>,
     <<Line(2, Text("A"))>>,
     <<Line(2, Text("B"))>>,
     <<Line(2, Expression("cls"))>>,
     <<Line(2, Element("p", <<>>))>>,
     <<Line(2, Element("span", <<>>))>>,
     <<Line(2, Element("p", <<>>)), Line(3, Element("span", <<>>))>>}

Shapes ==
    {<<Line(1, Element(base, attributes))>> \o children :
        base \in {"div", "p"}, attributes \in AttributeLists, children \in ChildLists}

DefaultCall == [supplied |-> FALSE, minRepeats |-> 0]

StartShapes ==
    /\ pc = "idle"
    /\ \E a \in Shapes, b \in Shapes :
          startWith(SourceText(<<Line(0, Element("main", <<>>))>> \o a \o b), DefaultCall)
    /\ UNCHANGED <<extractedComponents, previous, writerVars, mapperVars>>

NextFP == StartShapes \/ ProcessCandidate \/ Generate

SpecFP == Init /\ [][NextFP]_vars

(***************************************************************************)
(* Calls of extractComponents one after the other, on the trees of up to   *)
(* MaxRunNodes elements.  When a call returns its locals are gone; the     *)
(* caller may keep what it passed and what it got.                         *)
(***************************************************************************)
MaxRunNodes == 2

StartRun ==
    /\ pc = "idle"
    /\ \E n \in 1..MaxRunNodes :
         \E depth \in [1..n -> 0..(n - 1)] :
           /\ WellNested(n, depth)
           /\ \E heads \in [1..n -> Heads], o \in OptionChoices :
                 startWith(SourceText(LinesOf(n, depth, heads)), o)
    /\ UNCHANGED <<extractedComponents, previous, writerVars, mapperVars>>

Return ==
    /\ pc = "done"
    /\ \/ previous' = [input |-> input, options |-> options, result |-> result]
       \/ previous' = previous
    /\ input' = NoText
    /\ options' = NoOptions
    /\ pc' = "idle"
    /\ heap' = <<>>
    /\ body' = <<>>
    /\ candidates' = <<>>
    /\ idx' = 0
    /\ extractedComponents' = <<>>
    /\ result' = NoResult
    /\ UNCHANGED <<writerVars, mapperVars>>

NextRuns == StartRun \/ ProcessCandidate \/ Generate \/ Return

SpecRuns == Init /\ [][NextRuns]_vars

(***************************************************************************)
(* The file output of the convert command (src/cli/utils/file-writer.ts).  *)
(* A file on disk is absent, holds what was there before the command       *)
(* ("old") or what the command wrote ("new").  The user's answer to a      *)
(* confirmation and the success of a write are chosen by the environment.  *)
(***************************************************************************)
extractorVars ==
    <<input, options, pc, heap, body, candidates, idx, extractedComponents, result,
      previous>>

\* String.prototype.trim on the CSS texts of the model.
trim(text) == IF text = " " THEN "" ELSE text

\* path.join(assetsDir, filename)
assetPathOf(filename) ==
    CASE filename = "a.png" -> "assets/a.png"
      [] filename = "b.png" -> "assets/b.png"

fileExists(d, filePath) == d[filePath] # "absent"

\* The answers confirmOverwrite can get: it is asked only for an existing file.
Answers(d, filePath) == IF fileExists(d, filePath) THEN BOOLEAN ELSE {FALSE}

saveFileUnguarded(d, filePath, overwrite, written) ==
    IF written
    THEN [disk |-> [d EXCEPT ![filePath] = "new"], threw |-> FALSE]
    ELSE [disk |-> d, threw |-> TRUE]

\* saveComponent and saveCss: an existing file is written only after the
\* confirmation, a declined confirmation throws `Skipped`; fs.writeFile
\* throws when the write fails.
saveFile(d, filePath, overwrite, written) ==
    IF fileExists(d, filePath) /\ ~overwrite
    THEN [disk |-> d, threw |-> TRUE]
    ELSE IF written
         THEN [disk |-> [d EXCEPT ![filePath] = "new"], threw |-> FALSE]
         ELSE [disk |-> d, threw |-> TRUE]

\* saveAsset: a declined confirmation returns the path of the existing file.
saveAsset(d, assetPath, overwrite, written) ==
    IF fileExists(d, assetPath) /\ ~overwrite
    THEN [disk |-> d, threw |-> FALSE]
    ELSE IF written
         THEN [disk |-> [d EXCEPT ![assetPath] = "new"], threw |-> FALSE]
         ELSE [disk |-> d, threw |-> TRUE]

\* The confirmations asked so far, each with the user's answer.
asked(d, filePath, overwrite) ==
    IF fileExists(d, filePath)
    THEN Append(prompted, [path |-> filePath, overwrite |-> overwrite])
    ELSE prompted

\* convertCommand(options) up to its call of saveConversionResults(result,
\* paths), which starts with no saved file.
ConvertCommand ==
    /\ savePc = "idle"
    /\ \E force \in BOOLEAN : cliOptions' = [force |-> force]
    /\ \E css \in {"", " ", ".a{}"}, cssPath \in {"", "App.css"},
          assets \in {<<>>, <<"a.png">>, <<"a.png", "b.png">>} :
          saveCall' = [css |-> css, cssPath |-> cssPath, assets |-> assets]
    /\ disk' \in [Paths -> {"absent", "old"}]
    /\ prompted' = <<>>
    /\ savedFiles' = [component |-> "", css |-> "", assets |-> <<>>]
    /\ savePc' = "component"
    /\ assetIdx' = 0
    /\ UNCHANGED <<extractorVars, mapperVars>>

\* await saveComponent(result.jsx, paths.component, result.fonts)
SaveComponent ==
    /\ savePc = "component"
    /\ \E overwrite \in Answers(disk, "App.tsx"), written \in BOOLEAN :
          LET r == saveFile(disk, "App.tsx", overwrite, written)
          IN /\ disk' = r.disk
             /\ savePc' = IF r.threw THEN "failed" ELSE "css"
             /\ savedFiles' = IF r.threw THEN savedFiles
                              ELSE [savedFiles EXCEPT !.component = "App.tsx"]
             /\ prompted' = asked(disk, "App.tsx", overwrite)
    /\ UNCHANGED <<cliOptions, saveCall, assetIdx, extractorVars, mapperVars>>

\* if (paths.css && result.css && result.css.trim() !== '') await saveCss(...)
SaveCss ==
    /\ savePc = "css"
    /\ IF saveCall.cssPath # "" /\ saveCall.css # "" /\ trim(saveCall.css) # ""
       THEN /\ \E overwrite \in Answers(disk, saveCall.cssPath), written \in BOOLEAN :
                  LET r == saveFile(disk, saveCall.cssPath, overwrite, written)
                  IN /\ disk' = r.disk
                     /\ savePc' = IF r.threw THEN "failed" ELSE "assets"
                     /\ savedFiles' = IF r.threw THEN savedFiles
                                      ELSE [savedFiles EXCEPT !.css = saveCall.cssPath]
                     /\ prompted' = asked(disk, saveCall.cssPath, overwrite)
       ELSE /\ savePc' = "assets"
            /\ UNCHANGED <<disk, savedFiles, prompted>>
    /\ assetIdx' = 1
    /\ UNCHANGED <<cliOptions, saveCall, extractorVars, mapperVars>>

\* One iteration of the loop of saveAssets: a failure is logged and the loop
\* goes on.
SaveAsset ==
    /\ savePc = "assets"
    /\ assetIdx <= Len(saveCall.assets)
    /\ LET assetPath == assetPathOf(saveCall.assets[assetIdx])
       IN /\ \E overwrite \in Answers(disk, assetPath), written \in BOOLEAN :
                LET r == saveAsset(disk, assetPath, overwrite, written)
                IN /\ disk' = r.disk
                   /\ savedFiles' = IF r.threw THEN savedFiles
                                    ELSE [savedFiles EXCEPT !.assets = Append(@, assetPath)]
                   /\ prompted' = asked(disk, assetPath, overwrite)
    /\ assetIdx' = assetIdx + 1
    /\ UNCHANGED <<cliOptions, saveCall, savePc, extractorVars, mapperVars>>

\* return savedFiles
ReturnSavedFiles ==
    /\ savePc = "assets"
    /\ assetIdx > Len(saveCall.assets)
    /\ savePc' = "done"
    /\ UNCHANGED <<cliOptions, saveCall, disk, prompted, savedFiles, assetIdx,
                   extractorVars, mapperVars>>

NextSave == ConvertCommand \/ SaveComponent \/ SaveCss \/ SaveAsset \/ ReturnSavedFiles

SpecSave == Init /\ [][NextSave]_vars

(***************************************************************************)
(* The AI framework mapper (mapToFrameworkWithAI and its stages).  What    *)
(* generateText does is chosen by the environment: it throws, or it        *)
(* resolves to a text with or without a <vibe-code>...</vibe-code> part.   *)
(***************************************************************************)
Responses ==
    {[kind |-> "error", tagged |-> FALSE, inner |-> ""],
     [kind |-> "text", tagged |-> FALSE, inner |-> ""]}
        \cup {[kind |-> "text", tagged |-> TRUE, inner |-> inner] :
                 inner \in {"", " ", "<Button/>", " <Button/> ", "<Card/>"}}

\* generateText is not called.
NoResponse == [kind |-> "none", tagged |-> FALSE, inner |-> ""]

\* String.prototype.trim on the texts of the model.
trimCode(text) ==
    CASE text = " " -> ""
      [] text = " <Button/> " -> "<Button/>"
      [] OTHER -> text

\* A stage ends by returning a code, or by an error leaving it.
returned(code) == [threw |-> FALSE, code |-> code]

rethrown(code) == [threw |-> TRUE, code |-> code]

\* catch (error) { console.error(...); return code; }
caught(code) == returned(code)

\* mapToShadcnWithAI and mapColorsWithAI:
\* if (!codeMatch || !codeMatch[1]) return code; return codeMatch[1].trim()
mapToShadcnWithAI(code, apiKey, response) ==
    IF ~apiKey THEN returned(code)
    ELSE IF response.kind = "error" THEN caught(code)
    ELSE IF ~response.tagged \/ response.inner = "" THEN returned(code)
    ELSE returned(trimCode(response.inner))

mapColorsWithAI(code, apiKey, response) == mapToShadcnWithAI(code, apiKey, response)

\* mapToMUIWithAI: return codeMatch?.[1]?.trim() || code
mapToMUIWithAI(code, apiKey, response) ==
    IF ~apiKey THEN returned(code)
    ELSE IF response.kind = "error" THEN caught(code)
    ELSE IF response.tagged /\ trimCode(response.inner) # ""
         THEN returned(trimCode(response.inner))
         ELSE returned(code)

\* What generateText can do in a stage: it is called only with an API key.
ResponsesWith(apiKey) == IF apiKey THEN Responses ELSE {NoResponse}

StageRun(stage, code, apiKey, response, r) ==
    [stage |-> stage, input |-> code, apiKey |-> apiKey, response |-> response,
     output |-> r.code]

\* mapToFrameworkWithAI(code, framework, tailwindConfigPath) up to the end of
\* its switch.
MapFramework ==
    /\ mapPc = "idle"
    /\ \E code \in {"<button/>", "<div/>"},
          framework \in {"shadcn", "mui", "chakra", "none"},
          tailwindConfigPath \in {"", "tailwind.config.js"},
          apiKey \in BOOLEAN :
          /\ mapCall' = [code |-> code, framework |-> framework,
                         tailwindConfigPath |-> tailwindConfigPath, apiKey |-> apiKey]
          /\ CASE framework = "none" ->
                   /\ mapResult' = code
                   /\ mapPc' = "done"
                   /\ stages' = <<>>
               [] framework = "chakra" ->
                   /\ mapResult' = code
                   /\ mapPc' = "colors"
                   /\ stages' = <<>>
               [] framework = "shadcn" ->
                   \E response \in ResponsesWith(apiKey) :
                      LET r == mapToShadcnWithAI(code, apiKey, response)
                      IN /\ mapResult' = r.code
                         /\ mapPc' = IF r.threw THEN "threw" ELSE "colors"
                         /\ stages' = <<StageRun("shadcn", code, apiKey, response, r)>>
               [] framework = "mui" ->
                   \E response \in ResponsesWith(apiKey) :
                      LET r == mapToMUIWithAI(code, apiKey, response)
                      IN /\ mapResult' = r.code
                         /\ mapPc' = IF r.threw THEN "threw" ELSE "colors"
                         /\ stages' = <<StageRun("mui", code, apiKey, response, r)>>
    /\ UNCHANGED <<extractorVars, writerVars>>

\* if (tailwindConfigPath && framework !== 'none') result = await
\* mapColorsWithAI(result, tailwindConfigPath); return result
MapColors ==
    /\ mapPc = "colors"
    /\ IF mapCall.tailwindConfigPath # "" /\ mapCall.framework # "none"
       THEN \E response \in ResponsesWith(mapCall.apiKey) :
               LET r == mapColorsWithAI(mapResult, mapCall.apiKey, response)
               IN /\ mapResult' = r.code
                  /\ mapPc' = IF r.threw THEN "threw" ELSE "done"
                  /\ stages' = Append(stages,
                        StageRun("colors", mapResult, mapCall.apiKey, response, r))
       ELSE /\ mapPc' = "done"
            /\ UNCHANGED <<mapResult, stages>>
    /\ UNCHANGED <<mapCall, extractorVars, writerVars>>

NextMap == MapFramework \/ MapColors

SpecMap == Init /\ [][NextMap]_vars
(***************************************************************************)
(* Vocabulary of the properties, read off the parsed input and the current *)
(* tree without using the collector.                                       *)
(***************************************************************************)
\* A call has parsed its input.
Called == pc # "idle" /\ ~isSyntaxError(input)

Orig == parse(input)

OrigPaths == traverse(Orig.heap, Orig.body)

OrigNodes == {OrigPaths[k].node : k \in DOMAIN OrigPaths}

PathOf(n) == OrigPaths[CHOOSE k \in DOMAIN OrigPaths : OrigPaths[k].node = n]

ParentOf(n) == PathOf(n).parent

RECURSIVE AncestorsOf(_)
AncestorsOf(n) ==
    IF ParentOf(n) = 0 THEN {} ELSE {ParentOf(n)} \cup AncestorsOf(ParentOf(n))

IsSkipListed(n) == Orig.heap[n].tag.base \in DEFAULT_skipTags

IsCustomUnit(n) == Orig.heap[n].tag.base \in UpperInitial

\* Rules 1-3 of the collector.
Eligible(n) ==
    /\ ParentOf(n) # 0
    /\ ~IsSkipListed(n)
    /\ ~IsSkipListed(ParentOf(n))
    /\ ~IsCustomUnit(n)

FingerprintOf(n) == computeTreeFingerprint(Orig.heap, n)

GroupOf(n) == {m \in OrigNodes : Eligible(m) /\ FingerprintOf(m) = FingerprintOf(n)}

HasCustomParent(n) == ParentOf(n) # 0 /\ IsCustomUnit(ParentOf(n))

Threshold == IF options.supplied THEN options.minRepeats ELSE 2

Qualifies(n) ==
    /\ Eligible(n)
    /\ Cardinality(GroupOf(n)) >= Threshold
    /\ ~\E m \in GroupOf(n) : HasCustomParent(m)

CandidateFingerprints == {candidates[k].fingerprint : k \in DOMAIN candidates}

ComponentFingerprints ==
    {result.components[k].fingerprint : k \in DOMAIN result.components}

\* The node no longer hangs where the parser put it: something replaced it.
Replaced(n) ==
    IF ParentOf(n) = 0
    THEN \A i \in DOMAIN body : body[i].root # n
    ELSE heap[ParentOf(n)].children[PathOf(n).slot] # n

IsDeclaration(stmt) == stmt.type = "FunctionDeclaration"

Declarations == {i \in DOMAIN body : IsDeclaration(body[i])}

NodesUnder(h, root) ==
    LET ps == pathsFrom(h, root, 0, 0, 0) IN {ps[k].node : k \in DOMAIN ps}

\* Nodes of the unit bodies, and nodes of the rest of the program.
BodyNodes == UNION {NodesUnder(heap, body[i].root) : i \in Declarations}

LiveNodes ==
    UNION {NodesUnder(heap, body[i].root) :
              i \in {j \in DOMAIN body : ~IsDeclaration(body[j]) /\ body[j].root # 0}}

\* Lines of the output text that are elements named `name`.
ReferencesInOutput(name) ==
    {<<i, j>> \in (DOMAIN result.code.program) \X (1..(2 * MaxNodes + 2)) :
        /\ j \in DOMAIN result.code.program[i].jsx
        /\ result.code.program[i].jsx[j].tag = name}

DeclarationsInOutput(name) ==
    {i \in DOMAIN result.code.program :
        /\ result.code.program[i].type = "FunctionDeclaration"
        /\ result.code.program[i].name = name}

(***************************************************************************)
(* C1: count conservation.  For every processed group with N occurrences  *)
(* the output holds exactly N references to its unit and one declaration,  *)
(* none of the N occurrence nodes is left in the live tree, and the        *)
(* reported count is the number of references in the output.               *)
(***************************************************************************)
C1_CountConservation ==
    (pc = "done" /\ result.changed) =>
        \A k \in DOMAIN result.components :
            LET c == result.components[k]
            IN /\ Cardinality(ReferencesInOutput(c.name)) = c.count
               /\ Cardinality(DeclarationsInOutput(c.name)) = 1
               /\ c.count = Len(candidates[k].occurrences)
               /\ Range(candidates[k].occurrences) \cap LiveNodes = {}

(***************************************************************************)
(* C2: no-op.  When no fingerprint group qualifies, the call returns       *)
(* changed = false, no components and the input text itself.               *)
(***************************************************************************)
NoGroupQualifies == \A n \in OrigNodes : ~Qualifies(n)

C2_NoOp ==
    (pc = "done" /\ NoGroupQualifies) =>
        /\ result.changed = FALSE
        /\ result.components = <<>>
        /\ result.code = input
        /\ \A i \in DOMAIN body : ~IsDeclaration(body[i])

C2_Witness ==
    /\ pc = "done"
    /\ NoGroupQualifies
    /\ \E n \in OrigNodes : Eligible(n)
    /\ result.code = input

(***************************************************************************)
(* C3: threshold.  A group that the custom-parent rule does not drop is    *)
(* returned, and extracted, exactly when it has at least minRepeats        *)
(* occurrences; the threshold is 2 when the caller gives none.             *)
(***************************************************************************)
C3_Threshold ==
    Called =>
        /\ \A n \in OrigNodes :
              (Eligible(n) /\ ~\E m \in GroupOf(n) : HasCustomParent(m)) =>
                 /\ (FingerprintOf(n) \in CandidateFingerprints)
                       <=> (Cardinality(GroupOf(n)) >= Threshold)
                 /\ pc = "done" =>
                       ((FingerprintOf(n) \in ComponentFingerprints)
                           <=> (Cardinality(GroupOf(n)) >= Threshold))
        /\ ~options.supplied =>
              \A k \in DOMAIN candidates : candidates[k].count >= 2

C3_Witness ==
    /\ pc = "done"
    /\ options.supplied
    /\ options.minRepeats = 3
    /\ \E k \in DOMAIN result.components : result.components[k].count = 3

(***************************************************************************)
(* C4: exclusion rules 1-3.  No occurrence of a candidate group is         *)
(* skip-listed, is the child of a skip-listed element, is a custom-unit    *)
(* reference or lacks an element parent; an input whose nested elements    *)
(* are all skip-listed yields no candidates and changed = false.           *)
(***************************************************************************)
OnlySkipListedInside ==
    \A n \in OrigNodes : ParentOf(n) # 0 => IsSkipListed(n)

C4_ExclusionRules ==
    Called =>
        /\ \A k \in DOMAIN candidates :
              \A n \in Range(candidates[k].occurrences) :
                 /\ ~IsSkipListed(n)
                 /\ ParentOf(n) # 0
                 /\ ~IsSkipListed(ParentOf(n))
                 /\ ~IsCustomUnit(n)
        /\ \A n \in OrigNodes : Replaced(n) => Eligible(n)
        /\ OnlySkipListedInside =>
              /\ candidates = <<>>
              /\ pc = "done" => result.changed = FALSE

C4_Witness ==
    /\ pc = "done"
    /\ OnlySkipListedInside
    /\ \E n, m \in OrigNodes :
          /\ n # m
          /\ ParentOf(n) # 0
          /\ ParentOf(n) = ParentOf(m)
          /\ ~IsSkipListed(ParentOf(n))
          /\ FingerprintOf(n) = FingerprintOf(m)
    /\ result.changed = FALSE

(***************************************************************************)
(* C5: exclusion rule 4.  As claimed: a group with an occurrence that has  *)
(* a custom-unit reference anywhere in its ancestor chain is dropped       *)
(* (stated for the documented thresholds, minRepeats >= 2).                *)
(***************************************************************************)
C5_Rule4AnyAncestor ==
    (Called /\ Threshold >= 2) =>
        \A n \in OrigNodes :
            (Eligible(n) /\ \E m \in GroupOf(n) : \E a \in AncestorsOf(m) : IsCustomUnit(a))
                => FingerprintOf(n) \notin CandidateFingerprints

(***************************************************************************)
(* C5 as amended: a group with an occurrence whose immediate parent is a   *)
(* custom-unit reference is dropped: it is not a candidate, no component   *)
(* is reported for it and none of its occurrences is replaced.             *)
(***************************************************************************)
C5_Rule4ImmediateParent ==
    Called =>
        \A n \in OrigNodes :
            (Eligible(n) /\ \E m \in GroupOf(n) : HasCustomParent(m)) =>
                /\ FingerprintOf(n) \notin CandidateFingerprints
                /\ \A k \in DOMAIN extractedComponents :
                      extractedComponents[k].fingerprint # FingerprintOf(n)
                /\ Len(extractedComponents) = Cardinality(Declarations)
                /\ \A m \in GroupOf(n) : ~Replaced(m)

C5_Witness ==
    /\ pc = "done"
    /\ \E n \in OrigNodes :
          /\ Eligible(n)
          /\ Cardinality(GroupOf(n)) >= Threshold
          /\ \E m \in GroupOf(n) : HasCustomParent(m)

(***************************************************************************)
(* C6: no nested groups.  No occurrence of a returned group has an         *)
(* occurrence of a returned group among its ancestors.                     *)
(***************************************************************************)
AllOccurrences == UNION {Range(candidates[k].occurrences) : k \in DOMAIN candidates}

C6_NoNestedGroups ==
    Called => \A n \in AllOccurrences : AncestorsOf(n) \cap AllOccurrences = {}

(***************************************************************************)
(* C7: no self-nesting.  The relation "the body of unit a contains an      *)
(* invocation of unit b" has no cycle.                                     *)
(***************************************************************************)
Invokes(i, j) ==
    \E n \in NodesUnder(heap, body[i].root) : heap[n].tag = body[j].name

RECURSIVE InvokedFrom(_)
InvokedFrom(S) ==
    LET T == S \cup {j \in Declarations : \E i \in S : Invokes(i, j)}
    IN IF T = S THEN S ELSE InvokedFrom(T)

BodiesAreCopies ==
    /\ BodyNodes \cap (OrigNodes \cup LiveNodes) = {}
    /\ \A i, j \in Declarations :
          i # j => NodesUnder(heap, body[i].root) \cap NodesUnder(heap, body[j].root) = {}

BodiesKept ==
    \A i \in Declarations :
        \E j \in DOMAIN body' :
            /\ body'[j].name = body[i].name
            /\ body'[j].type = body[i].type
            /\ generateElement(heap', body'[j].root, 0) = generateElement(heap, body[i].root, 0)

C8_NonAliasing == [](Called => BodiesAreCopies) /\ [][BodiesKept]_vars

C8_Witness ==
    /\ pc = "done"
    /\ \E i, j \in DOMAIN candidates :
          /\ i < j
          /\ \E d \in Declarations :
                /\ body[d].name = candidates[i].suggestedName
                /\ \E n \in NodesUnder(heap, body[d].root) :
                      computeTreeFingerprint(heap, n) = candidates[j].fingerprint

(***************************************************************************)
(* C9: identity-based replacement.  A step of the loop replaces only nodes *)
(* recorded as occurrences of the group it processes; every other node,    *)
(* the new unit body included, is left as it was.                          *)
(***************************************************************************)
OnlyOccurrencesReplaced ==
    (pc = "loop" /\ idx <= Len(candidates) /\ idx' = idx + 1) =>
        LET occ == Range(candidates[idx].occurrences)
        IN /\ \A id \in DOMAIN heap :
                 /\ heap'[id].tag = heap[id].tag
                 /\ heap'[id].attributes = heap[id].attributes
                 /\ Len(heap'[id].children) = Len(heap[id].children)
                 /\ \A s \in DOMAIN heap[id].children :
                       heap'[id].children[s] # heap[id].children[s]
                           => heap[id].children[s] \in occ
           /\ \A i \in DOMAIN body :
                 body'[i + 1].root # body[i].root => body[i].root \in occ
           /\ generateElement(heap', body'[1].root, 0)
                 = generateElement(heap, candidates[idx].example, 0)

C9_IdentityBasedReplacement == [][OnlyOccurrencesReplaced]_vars

C9_Witness ==
    /\ pc = "done"
    /\ \E k \in DOMAIN candidates :
          /\ \E n \in Range(candidates[k].occurrences) : Replaced(n)
          /\ \E n \in LiveNodes \cap OrigNodes :
                /\ n \notin Range(candidates[k].occurrences)
                /\ computeTreeFingerprint(heap, n) = candidates[k].fingerprint

(***************************************************************************)
(* C10: naming follows extraction order.  The k-th group of the returned   *)
(* list is named componentNameBase followed by k.                          *)
(***************************************************************************)
C10_NamesFollowExtractionOrder ==
    Called =>
        \A k \in DOMAIN candidates :
            candidates[k].suggestedName = [base |-> DEFAULT_componentNameBase, num |-> k]
(***************************************************************************)
(* C11: name uniqueness.  The names of the returned groups are pairwise    *)
(* distinct and are exactly componentNameBase+1 .. componentNameBase+n for *)
(* the n returned groups: dropped groups consume no counter value.         *)
(***************************************************************************)
C11_NameUniqueness ==
    Called =>
        /\ \A i, j \in DOMAIN candidates :
              i # j => candidates[i].suggestedName # candidates[j].suggestedName
        /\ {candidates[k].suggestedName : k \in DOMAIN candidates}
              = {[base |-> DEFAULT_componentNameBase, num |-> k] : k \in 1..Len(candidates)}

\* Position of a node of the parsed input in the pre-order traversal.
DiscoveryOf(n) == CHOOSE k \in DOMAIN OrigPaths : OrigPaths[k].node = n

\* A group that is dropped is discovered before the first returned group.
C11_Witness ==
    /\ pc = "done"
    /\ candidates # <<>>
    /\ \E n \in OrigNodes :
          /\ Eligible(n)
          /\ FingerprintOf(n) \notin CandidateFingerprints
          /\ \A k \in DOMAIN candidates :
                DiscoveryOf(n) < DiscoveryOf(candidates[k].example)

(***************************************************************************)
(* C12: result ordering.  The candidate list, the order of rewriting and   *)
(* the components of the result are in descending occurrence count, groups *)
(* of equal count in the order their first occurrence was discovered.      *)
(***************************************************************************)
InExtractionOrder(i, j) ==
    \/ candidates[i].count > candidates[j].count
    \/ /\ candidates[i].count = candidates[j].count
       /\ DiscoveryOf(candidates[i].example) < DiscoveryOf(candidates[j].example)

ReportOf(c) == [name |-> c.suggestedName, count |-> c.count, fingerprint |-> c.fingerprint]

C12_ResultOrdering ==
    Called =>
        /\ \A i, j \in DOMAIN candidates : i < j => InExtractionOrder(i, j)
        /\ \A k \in DOMAIN candidates :
              \A n \in Range(candidates[k].occurrences) :
                 DiscoveryOf(candidates[k].example) <= DiscoveryOf(n)
        /\ Len(extractedComponents) <= Len(candidates)
        /\ \A k \in DOMAIN extractedComponents :
              extractedComponents[k] = ReportOf(candidates[k])
        /\ (pc = "done" /\ result.changed) =>
              /\ Len(result.components) = Len(candidates)
              /\ \A k \in DOMAIN candidates : result.components[k] = ReportOf(candidates[k])

C12_Witness ==
    /\ pc = "done"
    /\ \E i, j \in DOMAIN result.components :
          /\ i < j
          /\ result.components[i].count = result.components[j].count

(***************************************************************************)
(* C17: declaration placement.  Each processed group adds one top-level    *)
(* declaration; the declarations come before all the original top-level    *)
(* statements, which stay, in their original order.                        *)
(***************************************************************************)
StatementHead(stmt) == [type |-> stmt.type, name |-> stmt.name]

C17_DeclarationPlacement ==
    Called =>
        LET d == Len(extractedComponents)
        IN /\ Len(body) = d + Len(Orig.body)
           /\ \A i \in 1..d :
                 /\ IsDeclaration(body[i])
                 /\ body[i].name = extractedComponents[d + 1 - i].name
           /\ \A i \in DOMAIN Orig.body :
                 StatementHead(body[d + i]) = StatementHead(Orig.body[i])
           /\ (pc = "done" /\ result.changed) =>
                 /\ Len(result.code.program) = d + Len(input.program)
                 /\ \A i \in 1..d :
                       result.code.program[i].type = "FunctionDeclaration"
                 /\ \A i \in DOMAIN input.program :
                       StatementHead(result.code.program[d + i])
                          = StatementHead(input.program[i])

C17_Witness ==
    /\ pc = "done"
    /\ Cardinality(Declarations) >= 2
    /\ ~IsDeclaration(body[Len(body)])
(***************************************************************************)
(* C15: partial success.  A group none of whose occurrences could be       *)
(* replaced is skipped: the components of the result name only groups of   *)
(* which at least one occurrence was replaced.                             *)
(***************************************************************************)
C15_OnlyExtractedGroupsReported ==
    Called =>
        \A k \in DOMAIN extractedComponents :
           \E n \in Range(candidates[k].occurrences) : Replaced(n)
(***************************************************************************)
(* C16: fatal failures.  When parsing the input or serializing the tree    *)
(* fails, the caller gets a result holding the original text, marked as a  *)
(* failure; no exception reaches the caller.                               *)
(***************************************************************************)
C16_FailureIsAResult ==
    (pc = "threw" \/ (pc # "idle" /\ isSyntaxError(input))) =>
        /\ pc = "done"
        /\ result.code = input
        /\ result.changed = FALSE
(***************************************************************************)
(* C13: fingerprint soundness and content-blindness.  Two elements with    *)
(* the same tag, number of attributes, number of children and className    *)
(* token have the same fingerprint, whatever their text, expressions and   *)
(* other attribute values, and are collected into the same group.          *)
(***************************************************************************)
\* The className token of an element: the value of its last className
\* attribute, none when it has no such attribute.
ClassTokenOf(attributes) ==
    LET at == {i \in DOMAIN attributes : attributes[i].name = "className"}
    IN IF at = {} THEN [valueType |-> "none", value |-> ""]
       ELSE LET i == CHOOSE x \in at : \A y \in at : y <= x
            IN [valueType |-> attributes[i].valueType, value |-> attributes[i].value]

SameSurface(x, y) ==
    /\ x.tag = y.tag
    /\ Len(x.attributes) = Len(y.attributes)
    /\ Len(x.children) = Len(y.children)
    /\ ClassTokenOf(x.attributes) = ClassTokenOf(y.attributes)

\* Rules 1-3 of the collector, on a path of the parsed input.
EligibleAt(h, path) ==
    /\ path.parent # 0
    /\ h[path.node].tag.base \notin DEFAULT_skipTags
    /\ h[path.parent].tag.base \notin DEFAULT_skipTags
    /\ h[path.node].tag.base \notin UpperInitial

EligibleNodes(h, paths) ==
    {paths[k].node : k \in {j \in DOMAIN paths : EligibleAt(h, paths[j])}}

InSameGroup(a, b) ==
    \E k \in DOMAIN candidates : {a, b} \subseteq Range(candidates[k].occurrences)

\* No group is dropped by the threshold or by rule 4 when it has two members.
PairsAreReturned(h, paths) ==
    /\ Threshold <= 2
    /\ \A k \in DOMAIN paths :
          paths[k].parent # 0 => h[paths[k].parent].tag.base \notin UpperInitial

C13_ContentBlind ==
    Called =>
        LET h == Orig.heap
            paths == traverse(h, Orig.body)
            nodes == EligibleNodes(h, paths)
            pairsReturned == PairsAreReturned(h, paths)
        IN \A a, b \in nodes :
              SameSurface(h[a], h[b]) =>
                  /\ computeTreeFingerprint(h, a) = computeTreeFingerprint(h, b)
                  /\ (a # b /\ pairsReturned) => InSameGroup(a, b)

\* The contents of the children of a node.
ChildValuesOf(h, n) == [i \in DOMAIN h[n].children |-> h[h[n].children[i]].value]

C13_Witness ==
    /\ pc = "done"
    /\ LET h == Orig.heap
       IN \E a, b \in DOMAIN h :
             /\ a < b
             /\ InSameGroup(a, b)
             /\ SameSurface(h[a], h[b])
             /\ h[a].attributes # h[b].attributes
             /\ ChildValuesOf(h, a) # ChildValuesOf(h, b)

(***************************************************************************)
(* C14: shape sensitivity.  Two elements that differ in tag, number of     *)
(* attributes, number of children or className token have different        *)
(* fingerprints; two structurally distinct elements (another child tag,    *)
(* another subtree depth, another attribute name) never have the same      *)
(* fingerprint and never stand in the same group.                          *)
(***************************************************************************)
\* The structure of the subtree of a node: kinds and tags of its nodes and
\* the names of their attributes, without text and values.
RECURSIVE StructureOf(_, _), StructureOfChildren(_, _, _)
StructureOf(h, n) ==
    <<h[n].type, h[n].tag,
      [i \in DOMAIN h[n].attributes |-> h[n].attributes[i].name],
      StructureOfChildren(h, h[n].children, 1)>>

StructureOfChildren(h, kids, i) ==
    IF i > Len(kids) THEN <<>>
    ELSE <<StructureOf(h, kids[i])>> \o StructureOfChildren(h, kids, i + 1)

C14_ShapeSensitive ==
    Called =>
        LET h == Orig.heap
            nodes == EligibleNodes(h, traverse(h, Orig.body))
        IN \A a, b \in nodes :
              /\ ~SameSurface(h[a], h[b]) =>
                    computeTreeFingerprint(h, a) # computeTreeFingerprint(h, b)
              /\ StructureOf(h, a) # StructureOf(h, b) =>
                    /\ computeTreeFingerprint(h, a) # computeTreeFingerprint(h, b)
                    /\ ~InSameGroup(a, b)
C19_ForceNeverPrompts ==
    cliOptions.force =>
        /\ prompted = <<>>
        /\ (savePc = "done" /\ savedFiles.component # "") => disk[savedFiles.component] = "new"
(***************************************************************************)
(* C20: best-effort relabeling.  mapToFrameworkWithAI never fails; for     *)
(* framework 'none' it returns its input with no AI call; a stage with no  *)
(* API key, with an error from the AI call or with a response without      *)
(* <vibe-code> tags returns its input; colour mapping runs last, on the    *)
(* result of the framework mapping, and only with a tailwind config path.  *)
(***************************************************************************)
StageFellBack(run) ==
    \/ ~run.apiKey
    \/ run.response.kind = "error"
    \/ ~run.response.tagged

C20_BestEffort ==
    /\ mapPc # "threw"
    /\ (mapPc = "done" /\ mapCall.framework = "none") =>
          /\ mapResult = mapCall.code
          /\ stages = <<>>
    /\ \A k \in DOMAIN stages :
          /\ StageFellBack(stages[k]) => stages[k].output = stages[k].input
          /\ (stages[k].response # NoResponse) => stages[k].apiKey
          /\ stages[k].stage = "colors" =>
                /\ k = Len(stages)
                /\ mapCall.tailwindConfigPath # ""
                /\ IF k = 1
                   THEN mapCall.framework = "chakra" /\ stages[k].input = mapCall.code
                   ELSE /\ stages[k - 1].stage = mapCall.framework
                        /\ stages[k].input = stages[k - 1].output
          /\ stages[k].stage # "colors" => k = 1 /\ stages[k].input = mapCall.code
    /\ mapPc = "done" =>
          mapResult = IF stages = <<>> THEN mapCall.code ELSE stages[Len(stages)].output

\* The framework stage changed the code and the colour stage, run on that
\* result, met an error of the AI call.
C20_Witness ==
    /\ mapPc = "done"
    /\ Len(stages) = 2
    /\ stages[1].output # mapCall.code
    /\ stages[2].response.kind = "error"
    /\ mapResult = stages[1].output
(***************************************************************************)
(* C21: guarded file output.  An existing file is written over only after  *)
(* the user confirmed it for that file; a declined component file fails    *)
(* the save before any CSS or asset is written; a declined asset keeps its *)
(* file and is still listed as saved; an asset that fails to save does not *)
(* stop the assets after it.                                               *)
(***************************************************************************)
Confirmed(log, filePath) ==
    \E k \in DOMAIN log : log[k] = [path |-> filePath, overwrite |-> TRUE]

Declined(log, filePath) ==
    \E k \in DOMAIN log : log[k] = [path |-> filePath, overwrite |-> FALSE]

AssetPaths == {"assets/a.png", "assets/b.png"}

GuardedState ==
    /\ Declined(prompted, "App.tsx") =>
          /\ savePc = "failed"
          /\ \A p \in Paths : disk[p] # "new"
          /\ savedFiles = [component |-> "", css |-> "", assets |-> <<>>]
    /\ \A p \in AssetPaths :
          Declined(prompted, p) => disk[p] = "old" /\ p \in Range(savedFiles.assets)
    /\ \A p \in Paths : Declined(prompted, p) => disk[p] = "old"
    /\ savePc = "done" => assetIdx = Len(saveCall.assets) + 1

GuardedStep ==
    /\ \A p \in Paths :
          (disk[p] = "old" /\ disk'[p] = "new") =>
              Confirmed(prompted', p) /\ ~Confirmed(prompted, p)
    /\ (savePc = "assets" /\ assetIdx <= Len(saveCall.assets)) =>
          /\ savePc' = "assets"
          /\ assetIdx' = assetIdx + 1

====
